---- MODULE Spec2Model ----
(***************************************************************************)
(* Ripple registry and field evaluator of webgl-interactive-ripples.       *)
(*                                                                         *)
(* Two variants of the application exist in the repository:                *)
(*   "basic"      InteractiveRipples          (src/unnamed/part_001) with  *)
(*                the basic fragment shader   (src/unnamed/part_000:1-59)  *)
(*   "elaborated" EnhancedInteractiveRipples  (src/src/main.ts) with the   *)
(*                elaborated fragment shader  (src/unnamed/part_000:61-201)*)
(* One instance of one variant runs per page; `variant` says which.        *)
(*                                                                         *)
(* Slot i of the source (0-based) is index i+1 of the sequences here.      *)
(* Times are whole clock units; positions are framebuffer pixels.          *)
(***************************************************************************)
EXTENDS Integers, Sequences, FiniteSets, TLC

\* ------------------------------------------------------------------------
\* Program constants
\* ------------------------------------------------------------------------
MAX_CLICKS_BASIC == 10
MAX_CLICKS == 16
DefaultMaxRipples == 16

\* ------------------------------------------------------------------------
\* Bounds of the model
\* ------------------------------------------------------------------------
\* insertions allowed beyond the capacity since the last clear
MaxExtra == 2
\* largest clock reading
MaxTime == 1
\* the first MarkedWindow insertions after construction or a clear may hit the
\* marked point; later ones hit the common point
MarkedWindow == 1
\* touches delivered by one touchstart event
MaxTouches == 2
\* handler runs in a behaviour of the whole application
MaxSteps == 4

Sentinel == <<-1, -1>>

\* CSS-pixel pointer positions the environment delivers (origin top-left)
CommonPoint == <<100, 200>>
MarkedPoint == <<40, 293>>
CssPoints == {CommonPoint, MarkedPoint}

\* client sizes of the canvas; the first is the size at construction
InitialSize == <<800, 600>>
Sizes == {InitialSize, <<400, 300>>}

\* params as declared (colours are RGB triples, pixelSize is in tenths, the
\* other rates are in hundredths)
DefaultParams ==
    [color1 |-> <<0, 170, 255>>,
     color2 |-> <<255, 255, 255>>,
     backgroundColor |-> <<0, 17, 34>>,
     pixelSize |-> 40,
     waveSpeed |-> 35,
     waveThickness |-> 12,
     timeDecay |-> 80,
     distanceDecay |-> 120,
     bloomStrength |-> 30,
     animatedBackground |-> TRUE,
     maxRipples |-> DefaultMaxRipples]

\* the style uniforms, constructed from params
UniformsOf(p) ==
    [uColor1 |-> p.color1,
     uColor2 |-> p.color2,
     uBackgroundColor |-> p.backgroundColor,
     uPixelSize |-> p.pixelSize,
     uWaveSpeed |-> p.waveSpeed,
     uWaveThickness |-> p.waveThickness,
     uTimeDecay |-> p.timeDecay,
     uDistanceDecay |-> p.distanceDecay,
     uBloomStrength |-> p.bloomStrength,
     uAnimatedBackground |-> p.animatedBackground]

\* the controllers of the control panel: field, uniform, a value inside the
\* controller's range that differs from the default
Controllers ==
    {<<"color1", "uColor1", <<255, 0, 0>>>>,
     <<"color2", "uColor2", <<0, 255, 0>>>>,
     <<"backgroundColor", "uBackgroundColor", <<0, 0, 0>>>>,
     <<"waveSpeed", "uWaveSpeed", 50>>,
     <<"waveThickness", "uWaveThickness", 20>>,
     <<"timeDecay", "uTimeDecay", 100>>,
     <<"distanceDecay", "uDistanceDecay", 200>>,
     <<"pixelSize", "uPixelSize", 80>>,
     <<"bloomStrength", "uBloomStrength", 100>>,
     <<"animatedBackground", "uAnimatedBackground", FALSE>>}

Presets ==
    [ocean |-> [color1 |-> <<0, 64, 128>>, color2 |-> <<64, 160, 255>>,
                backgroundColor |-> <<0, 16, 32>>, waveSpeed |-> 25,
                bloomStrength |-> 40],
     fire |-> [color1 |-> <<255, 64, 0>>, color2 |-> <<255, 255, 0>>,
               backgroundColor |-> <<32, 0, 0>>, waveSpeed |-> 50,
               bloomStrength |-> 60],
     electric |-> [color1 |-> <<128, 0, 255>>, color2 |-> <<0, 255, 255>>,
                   backgroundColor |-> <<0, 0, 16>>, waveSpeed |-> 40,
                   bloomStrength |-> 80],
     pastel |-> [color1 |-> <<255, 179, 209>>, color2 |-> <<179, 209, 255>>,
                 backgroundColor |-> <<240, 240, 240>>, waveSpeed |-> 20,
                 bloomStrength |-> 20]]

VARIABLES
    variant,        \* "basic" or "elaborated"
    uClickPos,      \* uniforms.uClickPos.value: the slots' positions
    uClickTimes,    \* uniforms.uClickTimes.value: the slots' spawn times
    clickIndex,     \* the write cursor
    activeRipples,  \* elaborated variant's counter (stays 0 in the basic variant)
    params,         \* elaborated variant's params (unused by the basic variant)
    uniforms,       \* elaborated variant's style uniforms
    uTime,          \* uniforms.uTime.value
    uResolution,    \* uniforms.uResolution.value
    guiShown,       \* the control panel is displayed
    resizePending,  \* the debounce timer of the resize listener is armed
    disposed,       \* destroy() has run
    log,            \* history: records inserted since construction or the last clear
    startCursor,    \* history: clickIndex when log was last empty
    plainPos,       \* reference plain FIFO registry run beside the elaborated one
    plainTimes,
    plainIndex,
    steps,          \* handler runs so far (counted by the whole-application Next only)
    loopI,          \* fragment shader: the ripple loop's index i
    feed,           \* fragment shader: feed (basic), totalWave (elaborated)
    maxIntensity,   \* fragment shader: maxIntensity (elaborated)
    loopActive,     \* history: contributions of the non-empty slots the loop has read
    loopSum         \* history: their sum

regVars == <<uClickPos, uClickTimes, clickIndex, activeRipples>>
histVars == <<log, startCursor, plainPos, plainTimes, plainIndex>>
styleVars == <<params, uniforms>>
uiVars == <<guiShown, resizePending, disposed>>
appVars == <<variant, regVars, styleVars, uTime, uResolution, uiVars, histVars, steps>>
loopVars == <<loopI, feed, maxIntensity, loopActive, loopSum>>

vars == <<appVars, loopVars>>

Capacity == IF variant = "basic" THEN MAX_CLICKS_BASIC ELSE MAX_CLICKS

EmptyPos(n) == [i \in 1..n |-> Sentinel]
ZeroTimes(n) == [i \in 1..n |-> 0]

\* ------------------------------------------------------------------------
\* Time.  uTime.value is a double; uClickTimes is a Float32Array, so a store
\* into it rounds to the nearest float32, and so does the upload of uTime to
\* the shader's `uniform float uTime`.  Times are counted in thirds of the
\* float32 spacing: the float32 values are the multiples of 3.
\* ------------------------------------------------------------------------
Fround(t) == 3 * ((t + 1) \div 3)

\* the readings of clock.getElapsedTime() the frames can see
ClockReadings == {2 * k : k \in 0..MaxTime}

\* the registry as one value
Reg == [pos |-> uClickPos, times |-> uClickTimes, idx |-> clickIndex,
        active |-> activeRipples]
Plain == [pos |-> plainPos, times |-> plainTimes, idx |-> plainIndex]

\* ------------------------------------------------------------------------
\* CSS pixels -> framebuffer pixels (origin bottom-left).  The renderer's
\* pixel ratio is 1, so canvas.width = rect.width = clientWidth.
\* ------------------------------------------------------------------------
ToFramebuffer(css, size) ==
    LET rectW == size[1]
        rectH == size[2]
        canvasW == size[1]
        canvasH == size[2]
    IN <<(css[1] * canvasW) \div rectW, ((rectH - css[2]) * canvasH) \div rectH>>

\* framebuffer positions addRandomRipple can draw
RandomPositions == {ToFramebuffer(css, uResolution) : css \in CssPoints}

\* ------------------------------------------------------------------------
\* InteractiveRipples.addRipple: write at the cursor, advance the cursor
\* ------------------------------------------------------------------------
\* faulty variant: the cursor is advanced before the write
PlainAddRippleAdvanceFirst(r, cap, x, y, now) ==
    [pos |-> [r.pos EXCEPT ![((r.idx + 1) % cap) + 1] = <<x, y>>],
     times |-> [r.times EXCEPT ![((r.idx + 1) % cap) + 1] = Fround(now)],
     idx |-> (r.idx + 1) % cap]

PlainAddRipple(r, cap, x, y, now) ==
    [pos |-> [r.pos EXCEPT ![r.idx + 1] = <<x, y>>],
     times |-> [r.times EXCEPT ![r.idx + 1] = Fround(now)],
     idx |-> (r.idx + 1) % cap]

\* ------------------------------------------------------------------------
\* EnhancedInteractiveRipples.addRipple
\* ------------------------------------------------------------------------
\* faulty variant: the cursor wraps at maxRipples instead of MAX_CLICKS
EnhancedAddRippleWrapAtMax(r, maxR, x, y, now) ==
    LET full == r.active >= maxR
        pos1 == IF full THEN [r.pos EXCEPT ![r.idx + 1] = Sentinel] ELSE r.pos
        active1 == IF full THEN r.active - 1 ELSE r.active
    IN [pos |-> [pos1 EXCEPT ![r.idx + 1] = <<x, y>>],
        times |-> [r.times EXCEPT ![r.idx + 1] = Fround(now)],
        idx |-> (r.idx + 1) % maxR,
        active |-> active1 + 1]

\* faulty variant: a full registry gives up the slot maxRipples behind the cursor
EnhancedAddRippleEvictOldest(r, maxR, x, y, now) ==
    LET full == r.active >= maxR
        pos1 == IF full
                THEN [r.pos EXCEPT ![((r.idx - maxR) % MAX_CLICKS) + 1] = Sentinel]
                ELSE r.pos
        active1 == IF full THEN r.active - 1 ELSE r.active
    IN [pos |-> [pos1 EXCEPT ![r.idx + 1] = <<x, y>>],
        times |-> [r.times EXCEPT ![r.idx + 1] = Fround(now)],
        idx |-> (r.idx + 1) % MAX_CLICKS,
        active |-> active1 + 1]

\* faulty variant: the cursor stays put on the full-registry path
EnhancedAddRippleStuckWhenFull(r, maxR, x, y, now) ==
    LET full == r.active >= maxR
        pos1 == IF full THEN [r.pos EXCEPT ![r.idx + 1] = Sentinel] ELSE r.pos
        active1 == IF full THEN r.active - 1 ELSE r.active
    IN [pos |-> [pos1 EXCEPT ![r.idx + 1] = <<x, y>>],
        times |-> [r.times EXCEPT ![r.idx + 1] = Fround(now)],
        idx |-> IF full THEN r.idx ELSE (r.idx + 1) % MAX_CLICKS,
        active |-> active1 + 1]

\* faulty variant: the stamp is a clock reading taken at the insertion, later
\* than the last frame's
EnhancedAddRippleFreshClock(r, maxR, x, y, now) ==
    LET full == r.active >= maxR
        pos1 == IF full THEN [r.pos EXCEPT ![r.idx + 1] = Sentinel] ELSE r.pos
        active1 == IF full THEN r.active - 1 ELSE r.active
    IN [pos |-> [pos1 EXCEPT ![r.idx + 1] = <<x, y>>],
        times |-> [r.times EXCEPT ![r.idx + 1] = Fround(now + 2)],
        idx |-> (r.idx + 1) % MAX_CLICKS,
        active |-> active1 + 1]

EnhancedAddRipple(r, maxR, x, y, now) ==
    LET full == r.active >= maxR
        pos1 == IF full THEN [r.pos EXCEPT ![r.idx + 1] = Sentinel] ELSE r.pos
        active1 == IF full THEN r.active - 1 ELSE r.active
    IN [pos |-> [pos1 EXCEPT ![r.idx + 1] = <<x, y>>],
        times |-> [r.times EXCEPT ![r.idx + 1] = Fround(now)],
        idx |-> (r.idx + 1) % MAX_CLICKS,
        active |-> active1 + 1]

\* InteractiveRipples.clearRipples: the cursor is left where it is
ClearRipplesResult(r) ==
    [pos |-> [i \in DOMAIN r.pos |-> Sentinel],
     times |-> [i \in DOMAIN r.times |-> 0],
     idx |-> r.idx]

\* faulty variant: the positions are reset, the spawn times are left behind
ClearAllRipplesKeepTimes(r) ==
    [pos |-> [i \in DOMAIN r.pos |-> Sentinel],
     times |-> r.times,
     idx |-> 0,
     active |-> 0]

\* EnhancedInteractiveRipples.clearAllRipples
ClearAllRipplesResult(r) ==
    [pos |-> [i \in DOMAIN r.pos |-> Sentinel],
     times |-> [i \in DOMAIN r.times |-> 0],
     idx |-> 0,
     active |-> 0]

\* ------------------------------------------------------------------------
\* History bookkeeping and the environment's bounds
\* ------------------------------------------------------------------------
Entry(p, now) == [pos |-> p, time |-> Fround(now)]

MarkedPos == ToFramebuffer(MarkedPoint, uResolution)

\* may the environment deliver the positions of `points`, in this order?
Deliverable(points) ==
    /\ Len(log) + Len(points) <= Capacity + MaxExtra
    /\ \A i \in DOMAIN points :
          points[i] = MarkedPos => Len(log) + i <= MarkedWindow

RECURSIVE EnhancedAddAll(_, _, _, _)
EnhancedAddAll(r, maxR, points, now) ==
    IF points = <<>> THEN r
    ELSE EnhancedAddAll(EnhancedAddRipple(r, maxR, Head(points)[1], Head(points)[2], now),
                        maxR, Tail(points), now)

RECURSIVE PlainAddAll(_, _, _, _)
PlainAddAll(r, cap, points, now) ==
    IF points = <<>> THEN r
    ELSE PlainAddAll(PlainAddRipple(r, cap, Head(points)[1], Head(points)[2], now),
                     cap, Tail(points), now)

RECURSIVE LogAll(_, _, _)
LogAll(l, points, now) ==
    IF points = <<>> THEN l
    ELSE LogAll(Append(l, Entry(Head(points), now)), Tail(points), now)

\* addRipple called once per position of `points` (framebuffer pixels)
InsertEnhanced(points) ==
    LET r == EnhancedAddAll(Reg, params.maxRipples, points, uTime)
        p == PlainAddAll(Plain, MAX_CLICKS, points, uTime)
    IN /\ Deliverable(points)
       /\ uClickPos' = r.pos
       /\ uClickTimes' = r.times
       /\ clickIndex' = r.idx
       /\ activeRipples' = r.active
       /\ plainPos' = p.pos
       /\ plainTimes' = p.times
       /\ plainIndex' = p.idx
       /\ log' = LogAll(log, points, uTime)
       /\ UNCHANGED startCursor

\* clearAllRipples
ClearAll ==
    LET r == ClearAllRipplesResult(Reg)
    IN /\ uClickPos' = r.pos
       /\ uClickTimes' = r.times
       /\ clickIndex' = r.idx
       /\ activeRipples' = r.active
       /\ plainPos' = EmptyPos(MAX_CLICKS)
       /\ plainTimes' = ZeroTimes(MAX_CLICKS)
       /\ plainIndex' = 0
       /\ log' = <<>>
       /\ startCursor' = r.idx

\* toggleGUI
ToggleGUI == guiShown' = ~guiShown

\* ------------------------------------------------------------------------
\* Basic variant: handlers and public methods
\* ------------------------------------------------------------------------
BasicPointerDown ==
    /\ variant = "basic"
    /\ \E css \in CssPoints :
          LET p == ToFramebuffer(css, uResolution)
              r == PlainAddRipple(Reg, MAX_CLICKS_BASIC, p[1], p[2], uTime)
          IN /\ Deliverable(<<p>>)
             /\ uClickPos' = r.pos
             /\ uClickTimes' = r.times
             /\ clickIndex' = r.idx
             /\ log' = Append(log, Entry(p, uTime))
    /\ UNCHANGED <<variant, activeRipples, styleVars, uTime, uResolution, uiVars,
                   startCursor, plainPos, plainTimes, plainIndex>>

BasicClearRipples ==
    /\ variant = "basic"
    /\ LET r == ClearRipplesResult(Reg)
       IN /\ uClickPos' = r.pos
          /\ uClickTimes' = r.times
          /\ clickIndex' = r.idx
          /\ startCursor' = r.idx
    /\ log' = <<>>
    /\ UNCHANGED <<variant, activeRipples, styleVars, uTime, uResolution, uiVars,
                   plainPos, plainTimes, plainIndex>>

\* clock.getElapsedTime() never decreases; render reads the uniforms
BasicAnimate ==
    /\ variant = "basic"
    /\ \E t \in {c \in ClockReadings : c >= uTime} : uTime' = t
    /\ UNCHANGED <<variant, regVars, styleVars, uResolution, uiVars, histVars>>

BasicResize ==
    /\ variant = "basic"
    /\ \E size \in Sizes : uResolution' = size
    /\ UNCHANGED <<variant, regVars, styleVars, uTime, uiVars, histVars>>

\* setWaveSpeed only logs
BasicSetWaveSpeed ==
    /\ variant = "basic"
    /\ UNCHANGED <<variant, regVars, styleVars, uTime, uResolution, uiVars, histVars>>

\* ------------------------------------------------------------------------
\* Elaborated variant: handlers and public methods
\* ------------------------------------------------------------------------
PointerDown ==
    /\ variant = "elaborated"
    /\ \E css \in CssPoints : InsertEnhanced(<<ToFramebuffer(css, uResolution)>>)
    /\ UNCHANGED <<variant, styleVars, uTime, uResolution, uiVars>>

TouchSeqs == UNION {[1..n -> CssPoints] : n \in 1..MaxTouches}

TouchStart ==
    /\ variant = "elaborated"
    /\ \E touches \in TouchSeqs :
          InsertEnhanced([i \in DOMAIN touches |-> ToFramebuffer(touches[i], uResolution)])
    /\ UNCHANGED <<variant, styleVars, uTime, uResolution, uiVars>>

AddRandomRipple == \E p \in RandomPositions : InsertEnhanced(<<p>>)

KeyCodes == {"KeyC", "KeyR", "Space", "KeyA"}

KeyDownOn(code) ==
    /\ variant = "elaborated"
    /\ CASE code = "KeyC" -> ToggleGUI /\ UNCHANGED <<regVars, histVars>>
         [] code = "KeyR" -> ClearAll /\ UNCHANGED guiShown
         [] code = "Space" -> AddRandomRipple /\ UNCHANGED guiShown
         [] OTHER -> UNCHANGED <<regVars, histVars, guiShown>>
    /\ UNCHANGED <<variant, styleVars, uTime, uResolution, resizePending, disposed>>

\* the keys that reach the registry
RegistryKeyDown == \E code \in {"KeyR", "Space"} : KeyDownOn(code)

KeyDown == \E code \in KeyCodes : KeyDownOn(code)

\* the resize listener re-arms its 100 ms timer
ResizeEvent ==
    /\ variant = "elaborated"
    /\ resizePending' = TRUE
    /\ UNCHANGED <<variant, regVars, styleVars, uTime, uResolution, guiShown,
                   disposed, histVars>>

\* the timer fires: resize()
ResizeTimer ==
    /\ variant = "elaborated"
    /\ resizePending
    /\ resizePending' = FALSE
    /\ \E size \in Sizes : uResolution' = size
    /\ UNCHANGED <<variant, regVars, styleVars, uTime, guiShown, disposed, histVars>>

\* a controller of the panel changes its field; onChange copies it to the uniform
GuiChange ==
    /\ variant = "elaborated"
    /\ \E c \in Controllers :
          /\ params' = [params EXCEPT ![c[1]] = c[3]]
          /\ uniforms' = [uniforms EXCEPT ![c[2]] = c[3]]
    /\ UNCHANGED <<variant, regVars, uTime, uResolution, uiVars, histVars>>

GuiClearRipples ==
    /\ variant = "elaborated"
    /\ ClearAll
    /\ UNCHANGED <<variant, styleVars, uTime, uResolution, uiVars>>

GuiRandomRipple ==
    /\ variant = "elaborated"
    /\ AddRandomRipple
    /\ UNCHANGED <<variant, styleVars, uTime, uResolution, uiVars>>

\* exportSettings serialises params and downloads them
GuiExportSettings ==
    /\ variant = "elaborated"
    /\ UNCHANGED <<variant, regVars, styleVars, uTime, uResolution, uiVars, histVars>>

\* faulty variant: the frame step also retires the ripples spawned before this frame
AnimateExpiring ==
    /\ variant = "elaborated"
    /\ \E t \in {c \in ClockReadings : c >= uTime} :
          /\ uTime' = t
          /\ uClickPos' = [i \in DOMAIN uClickPos |->
                             IF uClickTimes[i] < t THEN Sentinel ELSE uClickPos[i]]
    /\ UNCHANGED <<variant, uClickTimes, clickIndex, activeRipples, styleVars,
                   uResolution, uiVars, histVars>>

\* clock.getElapsedTime() never decreases; render reads the uniforms; the
\* frame counters behind the FPS label are not part of the model
Animate ==
    /\ variant = "elaborated"
    /\ \E t \in {c \in ClockReadings : c >= uTime} : uTime' = t
    /\ UNCHANGED <<variant, regVars, styleVars, uResolution, uiVars, histVars>>

Destroy ==
    /\ variant = "elaborated"
    /\ disposed' = TRUE
    /\ UNCHANGED <<variant, regVars, styleVars, uTime, uResolution, guiShown,
                   resizePending, histVars>>

PresetResult(p, u, name) ==
    LET preset == Presets[name]
    IN [params |-> [p EXCEPT !.color1 = preset.color1,
                             !.color2 = preset.color2,
                             !.backgroundColor = preset.backgroundColor,
                             !.waveSpeed = preset.waveSpeed,
                             !.bloomStrength = preset.bloomStrength],
        uniforms |-> [u EXCEPT !.uColor1 = preset.color1,
                               !.uColor2 = preset.color2,
                               !.uBackgroundColor = preset.backgroundColor,
                               !.uWaveSpeed = preset.waveSpeed,
                               !.uBloomStrength = preset.bloomStrength]]

Preset ==
    /\ variant = "elaborated"
    /\ \E name \in DOMAIN Presets :
          LET r == PresetResult(params, uniforms, name)
          IN /\ params' = r.params
             /\ uniforms' = r.uniforms
    /\ UNCHANGED <<variant, regVars, uTime, uResolution, uiVars, histVars>>

\* ------------------------------------------------------------------------
\* Fragment shaders.  Intensities, dither values and strengths are in units
\* of 1/Unit, the common denominator of Bayer16's 1/256 and the shaders'
\* decimal thresholds.  A coordinate a is the pair of numerators <<nx, ny>>
\* over the denominator den.
\* ------------------------------------------------------------------------
Unit == 256 * 5

Max(a, b) == IF a >= b THEN a ELSE b
Min(a, b) == IF a <= b THEN a ELSE b

\* fract(floor(a).x / 2 + floor(a).y^2 * 0.75)
Bayer2(n, den) ==
    LET x == n[1] \div den
        y == n[2] \div den
    IN (x * (Unit \div 2) + y * y * ((3 * Unit) \div 4)) % Unit

Bayer4(n, den) == Bayer2(n, 2 * den) \div 4 + Bayer2(n, den)
Bayer8(n, den) == Bayer4(n, 2 * den) \div 4 + Bayer2(n, den)
Bayer16(n, den) == Bayer8(n, 2 * den) \div 4 + Bayer2(n, den)

\* Fragments sampled: gl_FragCoord.xy - uResolution * 0.5 is <<ox + 0.5, oy + 0.5>>
\* for the fragment <<ox, oy>> pixels from the centre of the viewport.
SampleFragments == {<<0, 0>>, <<-2, 1>>, <<-1, -1>>, <<1, 0>>}

\* fragCoord / pixelSize as numerators over the denominator pixelSize (tenths)
DitherCoord(frag) == <<(2 * frag[1] + 1) * 5, (2 * frag[2] + 1) * 5>>

\* blueNoise(fragCoord / pixelSize), evaluated at the sampled fragments for the
\* pixel sizes 4.0 and 8.0 and rounded to 1/Unit
BlueNoise(frag, pixelSize) ==
    CASE pixelSize = 40 /\ frag = <<0, 0>> -> 16
      [] pixelSize = 40 /\ frag = <<-2, 1>> -> 1161
      [] pixelSize = 40 /\ frag = <<-1, -1>> -> 1264
      [] pixelSize = 40 /\ frag = <<1, 0>> -> 579
      [] pixelSize = 80 /\ frag = <<0, 0>> -> 1203
      [] pixelSize = 80 /\ frag = <<-2, 1>> -> 755
      [] pixelSize = 80 /\ frag = <<-1, -1>> -> 77
      [] pixelSize = 80 /\ frag = <<1, 0>> -> 856

\* step(edge, x)
GlslStep(edge, x) == IF x < edge THEN 0 ELSE Unit

\* smoothstep(e0, e1, x)
Smoothstep(e0, e1, x) ==
    LET t == Max(0, Min(Unit, ((x - e0) * Unit) \div (e1 - e0)))
    IN (t * t * (3 * Unit - 2 * t)) \div (Unit * Unit)

\* mix(a, b, t) on colours
Mix(a, b, t) == [k \in 1..3 |-> (a[k] * (Unit - t) + b[k] * t) \div Unit]

\* the sentinel check of both ripple loops
IsEmptySlot(pos) == pos[1] < 0 /\ pos[2] < 0

\* faulty variant: contributions add up
LoopStepSum(acc, pos, contribution) ==
    IF IsEmptySlot(pos) THEN acc ELSE acc + contribution

\* one iteration of a ripple loop: acc = max(acc, contribution) unless skipped
LoopStep(acc, pos, contribution) ==
    IF IsEmptySlot(pos) THEN acc ELSE Max(acc, contribution)

\* the whole loop over the slots; contrib[i] is slot i's ring * attenuation
RECURSIVE RippleLoop(_, _, _, _)
RippleLoop(pos, contrib, i, acc) ==
    IF i > Len(pos) THEN acc
    ELSE RippleLoop(pos, contrib, i + 1, LoopStep(acc, pos[i], contrib[i]))

\* basic shader: 1-bit dither of feed against Bayer8, pixel size 4.0
BasicFragColor(frag, pos, contrib) ==
    LET intensity == RippleLoop(pos, contrib, 1, 0)
        bayerValue == Bayer8(DitherCoord(frag), 40) - Unit \div 2
        bw == GlslStep(Unit \div 2, intensity + bayerValue)
    IN [intensity |-> intensity,
        background |-> <<0, 0, 0>>,
        color |-> [k \in 1..3 |-> (255 * bw) \div Unit]]

\* getAnimatedBackground; gradient is the smoothstep of the animated uv
GetAnimatedBackground(u, gradient) ==
    IF ~u.uAnimatedBackground THEN u.uBackgroundColor
    ELSE Mix(u.uBackgroundColor,
             [k \in 1..3 |-> (u.uBackgroundColor[k] * 3) \div 2],
             (gradient * 3) \div 10)

\* elaborated shader
EnhancedFragColor(frag, pos, contrib, u, gradient) ==
    LET totalWave == RippleLoop(pos, contrib, 1, 0)
        intensity == RippleLoop(pos, contrib, 1, 0)
        a == DitherCoord(frag)
        dither == IF intensity > (8 * Unit) \div 10 THEN Bayer16(a, u.uPixelSize)
                  ELSE IF intensity > (6 * Unit) \div 10 THEN Bayer8(a, u.uPixelSize)
                  ELSE IF intensity > (3 * Unit) \div 10 THEN Bayer4(a, u.uPixelSize)
                  ELSE BlueNoise(frag, u.uPixelSize)
        thresholdValue == totalWave + (dither - Unit \div 2)
        rippleStrength == Smoothstep((3 * Unit) \div 10, (7 * Unit) \div 10, thresholdValue)
        backgroundColor == GetAnimatedBackground(u, gradient)
        rippleColor == Mix(u.uColor1, u.uColor2, rippleStrength)
        mixed == Mix(backgroundColor, rippleColor, rippleStrength)
        bloom == [k \in 1..3 |->
                    (rippleColor[k] * u.uBloomStrength * (rippleStrength - Unit \div 2) * 2)
                       \div (100 * Unit)]
    IN [intensity |-> totalWave,
        background |-> backgroundColor,
        color |-> IF rippleStrength > Unit \div 2
                  THEN [k \in 1..3 |-> mixed[k] + bloom[k]]
                  ELSE mixed]

\* ------------------------------------------------------------------------
\* The ripple loop of one fragment, an iteration at a time.  The slot read by
\* an iteration and its ring * attenuation are the iteration's inputs.
\* ------------------------------------------------------------------------
SlotInputs == {Sentinel, <<-1, 7>>, <<7, -1>>, <<100, 100>>}
Contributions == {0, (4 * Unit) \div 10, (8 * Unit) \div 10}

LoopIterate ==
    /\ loopI < Capacity
    /\ \E pos \in SlotInputs, c \in Contributions :
          /\ feed' = LoopStep(feed, pos, c)
          /\ maxIntensity' = IF variant = "basic" THEN maxIntensity
                             ELSE LoopStep(maxIntensity, pos, c)
          /\ loopActive' = IF pos = Sentinel THEN loopActive ELSE loopActive \cup {c}
          /\ loopSum' = IF pos = Sentinel THEN loopSum ELSE loopSum + c
    /\ loopI' = loopI + 1
    /\ UNCHANGED appVars

\* the next fragment starts over
LoopRestart ==
    /\ loopI = Capacity
    /\ loopI' = 0
    /\ feed' = 0
    /\ maxIntensity' = 0
    /\ loopActive' = {}
    /\ loopSum' = 0
    /\ UNCHANGED appVars

\* ------------------------------------------------------------------------
\* Specifications
\* ------------------------------------------------------------------------
\* the state the constructor leaves, but for params.maxRipples
InitCommon ==
    /\ variant \in {"basic", "elaborated"}
    /\ uClickPos = EmptyPos(Capacity)
    /\ uClickTimes = ZeroTimes(Capacity)
    /\ clickIndex = 0
    /\ activeRipples = 0
    /\ uTime = 0
    /\ uResolution = InitialSize
    /\ guiShown = FALSE
    /\ resizePending = FALSE
    /\ disposed = FALSE
    /\ log = <<>>
    /\ startCursor = 0
    /\ plainPos = EmptyPos(MAX_CLICKS)
    /\ plainTimes = ZeroTimes(MAX_CLICKS)
    /\ plainIndex = 0
    /\ steps = 0
    /\ loopI = 0
    /\ feed = 0
    /\ maxIntensity = 0
    /\ loopActive = {}
    /\ loopSum = 0

\* the application as constructed
Init ==
    /\ InitCommon
    /\ params = DefaultParams
    /\ uniforms = UniformsOf(params)

\* the registry under every configuration of params.maxRipples
InitConfigured ==
    /\ InitCommon
    /\ \E m \in 1..MAX_CLICKS :
          /\ variant = "basic" => m = DefaultMaxRipples
          /\ params = [DefaultParams EXCEPT !.maxRipples = m]
    /\ uniforms = UniformsOf(params)

\* the operations that reach the registry, and the frame step
Uncounted(A) == A /\ UNCHANGED <<steps, loopVars>>

NextRegistry ==
    \/ Uncounted(BasicPointerDown)
    \/ Uncounted(BasicClearRipples)
    \/ Uncounted(BasicAnimate)
    \/ Uncounted(PointerDown)
    \/ Uncounted(TouchStart)
    \/ Uncounted(RegistryKeyDown)
    \/ Uncounted(Animate)

SpecRegistry == InitConfigured /\ [][NextRegistry]_vars

\* every handler and public method of the application, MaxSteps runs in all
Counted(A) == steps < MaxSteps /\ A /\ steps' = steps + 1 /\ UNCHANGED loopVars

Next ==
    \/ Counted(BasicPointerDown)
    \/ Counted(BasicClearRipples)
    \/ Counted(BasicAnimate)
    \/ Counted(BasicResize)
    \/ Counted(BasicSetWaveSpeed)
    \/ Counted(PointerDown)
    \/ Counted(TouchStart)
    \/ Counted(KeyDown)
    \/ Counted(ResizeEvent)
    \/ Counted(ResizeTimer)
    \/ Counted(GuiChange)
    \/ Counted(GuiClearRipples)
    \/ Counted(GuiRandomRipple)
    \/ Counted(GuiExportSettings)
    \/ Counted(Animate)
    \/ Counted(Destroy)
    \/ Counted(Preset)

Spec == Init /\ [][Next]_vars

\* the ripple loop of a fragment on every snapshot of slots and contributions
NextLoop ==
    \/ LoopIterate
    \/ LoopRestart

SpecLoop == Init /\ [][NextLoop]_vars

\* ========================================================================
\* Properties
\* ========================================================================
K == Len(log)

SlotRecord(i) == [pos |-> uClickPos[i], time |-> uClickTimes[i]]
NonEmptySlots == {i \in 1..Capacity : ~IsEmptySlot(uClickPos[i])}
AllSlotsEmpty == \A i \in 1..Capacity : uClickPos[i] = Sentinel

\* the insertions since the last clear that targeted slot s (0-based)
WritersOf(s) == {m \in 1..K : (startCursor + m - 1) % Capacity = s}
LastWriter(s) == CHOOSE m \in WritersOf(s) : \A n \in WritersOf(s) : n <= m

\* the record of insertion m occurs only once in the history
UniqueInLog(m) == \A n \in 1..K : n # m => log[n] # log[m]
Retrievable(m) == \E i \in 1..Capacity : SlotRecord(i) = log[m]

SetMax(S) == CHOOSE m \in S : \A x \in S : x <= m

\* C1: after k insertions since construction or the last clear the slots hold
\* exactly the min(k, N) most recent records, each in the slot its insertion
\* targeted in cursor order, every other slot is empty, and a record that was
\* overwritten is in no slot any more (both variants, every maxRipples).
FifoEviction ==
    /\ Cardinality(NonEmptySlots) = Min(K, Capacity)
    /\ \A s \in 0..(Capacity - 1) :
          IF WritersOf(s) = {} THEN uClickPos[s + 1] = Sentinel
          ELSE /\ SlotRecord(s + 1) = log[LastWriter(s)]
               /\ LastWriter(s) > K - Capacity
    /\ \A m \in 1..K : (m <= K - Capacity /\ UniqueInLog(m)) => ~Retrievable(m)

\* the elaborated registry, maxRipples below the capacity, has wrapped once:
\* insertion #1 was unique and is gone
FifoEvictionWitness ==
    /\ variant = "elaborated"
    /\ params.maxRipples = 3
    /\ K = MAX_CLICKS + 1
    /\ UniqueInLog(1)
    /\ ~Retrievable(1)

\* C2: with no insertion since construction or the last clear every slot is
\* the sentinel, the cursor is 0 and the counter is 0; the first insertion
\* after a clear is in slot 0.
ClearResetsRegistry ==
    /\ K = 0 => /\ AllSlotsEmpty
                /\ clickIndex = 0
                /\ activeRipples = 0
    /\ K = 1 => SlotRecord(1) = log[1]

\* C3: the elaborated variant's counter equals the number of non-empty slots.
ActiveCountAccurate ==
    variant = "elaborated" => activeRipples = Cardinality(NonEmptySlots)

\* C4 as stated: N + 1 insertions into an empty registry whose cursor was 0
\* leave insertion #1 irretrievable and insertion #2 in slot 0.
SecondInSlotZero ==
    (startCursor = 0 /\ K = Capacity + 1) =>
        /\ UniqueInLog(1) => ~Retrievable(1)
        /\ SlotRecord(1) = log[2]

\* C4 as amended: N + 1 insertions into an empty registry whose cursor was 0
\* leave insertion #1 irretrievable, insertion #N+1 in slot 0 and insertion
\* #2, the oldest kept, in slot 1.
NewestInSlotZero ==
    (startCursor = 0 /\ K = Capacity + 1) =>
        /\ UniqueInLog(1) => ~Retrievable(1)
        /\ SlotRecord(1) = log[Capacity + 1]
        /\ SlotRecord(2) = log[2]

\* N + 1 insertions from cursor 0, the first one unique, the second and the
\* last one different records
NewestInSlotZeroWitness ==
    /\ startCursor = 0
    /\ K = Capacity + 1
    /\ UniqueInLog(1)
    /\ log[2] # log[Capacity + 1]
    /\ SlotRecord(1) = log[Capacity + 1]

\* C5: the elaborated registry and the plain FIFO registry of the same
\* capacity, fed the same insertions and clears, have equal slot positions,
\* spawn times and cursors (every maxRipples).
PlainEquivalent ==
    variant = "elaborated" =>
        /\ uClickPos = plainPos
        /\ uClickTimes = plainTimes
        /\ clickIndex = plainIndex

\* the full-registry path has overwritten occupied slots
PlainEquivalentWitness ==
    /\ variant = "elaborated"
    /\ params.maxRipples = 1
    /\ K = MAX_CLICKS + 2
    /\ uClickPos = plainPos
    /\ clickIndex = 2

\* C7: at most maxRipples slots of the elaborated registry are non-empty.
AtMostMaxRipples ==
    variant = "elaborated" => Cardinality(NonEmptySlots) <= params.maxRipples

\* C10: the cursor is in [0, N) and every insertion advances it by one modulo
\* N, whatever the slot held and whether or not the registry counted as full.
CursorAdvances ==
    [][/\ clickIndex \in 0..(Capacity - 1)
       /\ clickIndex' \in 0..(Capacity - 1)
       /\ Len(log') > Len(log) =>
             clickIndex' = (clickIndex + Len(log') - Len(log)) % Capacity]_vars

\* the cursor has wrapped on the full-registry path
CursorAdvancesWitness ==
    /\ variant = "elaborated"
    /\ params.maxRipples = 2
    /\ K = MAX_CLICKS + 1
    /\ clickIndex = 1
    /\ activeRipples = 2

\* ------------------------------------------------------------------------
\* the fragment colour of the running variant on the current uniforms
Gradients == {0, Unit \div 2, Unit}

FragColor(frag, contrib, gradient) ==
    IF variant = "basic" THEN BasicFragColor(frag, uClickPos, contrib)
    ELSE EnhancedFragColor(frag, uClickPos, contrib, uniforms, gradient)

\* C6: while every slot is empty (at construction, after any number of
\* clears) every fragment has intensity 0 and the background-only colour,
\* in both variants, at every elapsed time.
ClearedIsBackground ==
    AllSlotsEmpty =>
        \A frag \in SampleFragments, c \in Contributions, g \in Gradients :
            LET out == FragColor(frag, [i \in 1..Capacity |-> c], g)
            IN /\ out.intensity = 0
               /\ out.color = out.background

\* C8: the loop's intensity is the maximum of the contributions of the
\* non-empty slots read so far (0 if none), never their sum.
IntensityIsMax ==
    /\ feed = SetMax(loopActive \cup {0})
    /\ variant = "elaborated" => maxIntensity = SetMax(loopActive \cup {0})

\* a finished loop over two ripples of 0.4 each: intensity 0.4, sum 0.8
IntensityIsMaxWitness ==
    /\ loopI = Capacity
    /\ loopActive = {(4 * Unit) \div 10}
    /\ loopSum = 2 * ((4 * Unit) \div 10)
    /\ feed = (4 * Unit) \div 10

\* C9: a step that moves the clock, the resolution, a style parameter or the
\* panel leaves the slots, the cursor and the counter as they were, and a
\* step that moves the clock moves nothing else the evaluator reads.
RegistryFrame ==
    [][/\ (uTime' # uTime \/ uResolution' # uResolution \/ styleVars' # styleVars
              \/ uiVars' # uiVars) => regVars' = regVars
       /\ uTime' # uTime => /\ styleVars' = styleVars
                            /\ uResolution' = uResolution
       /\ regVars' # regVars => log' # log]_vars

\* a record survived a frame step and a change of style
RegistryFrameWitness ==
    /\ variant = "elaborated"
    /\ K = 1
    /\ uTime > log[1].time
    /\ params # DefaultParams
    /\ SlotRecord(1) = log[1]

\* ------------------------------------------------------------------------
\* C11: every slot of either variant is fully empty (the sentinel position
\* with spawn time 0) or fully populated (a position with no negative
\* coordinate together with the spawn time, >= 0, of the very insertion that
\* wrote the position), after every operation.
SlotsEmptyOrPopulated ==
    \A s \in 0..(Capacity - 1) :
        LET rec == SlotRecord(s + 1)
        IN \/ /\ rec.pos = Sentinel
              /\ rec.time = 0
           \/ /\ rec.pos[1] >= 0
              /\ rec.pos[2] >= 0
              /\ rec.time >= 0
              /\ WritersOf(s) # {}
              /\ rec = log[LastWriter(s)]

\* the forced-overwrite path has written slot 1 on a later frame than slot 0
\* was written, and slot 2 is still empty
SlotsEmptyOrPopulatedWitness ==
    /\ variant = "elaborated"
    /\ params.maxRipples = 1
    /\ K = 2
    /\ uTime = 2
    /\ SlotRecord(1) = [pos |-> log[1].pos, time |-> 0]
    /\ SlotRecord(2) = [pos |-> log[2].pos, time |-> Fround(uTime)]
    /\ SlotRecord(3) = [pos |-> Sentinel, time |-> 0]

\* C12: an insertion stamps its slot with the time of the last rendered frame
\* as the shader reads it (0 before the first frame) and takes no clock
\* reading of its own, so all the insertions of one handler, and of every
\* handler up to the next frame, carry that one stamp; the clock moves only on
\* a frame step, which leaves the registry alone; and at every step the spawn
\* time of every populated slot is at most the frame's time, so that
\* max(uTime - uClickTimes[i], 0.0) never clamps.
StampIsFrameTime ==
    [][/\ \A i \in 1..Capacity :
             ~IsEmptySlot(uClickPos[i]) => uClickTimes[i] <= Fround(uTime)
       /\ \A i \in 1..Capacity :
             ~IsEmptySlot(uClickPos'[i]) => uClickTimes'[i] <= Fround(uTime')
       /\ Len(log') > Len(log) =>
             /\ uTime' = uTime
             /\ \A j \in 0..(Len(log') - Len(log) - 1) :
                   uClickTimes'[((clickIndex + j) % Capacity) + 1] = Fround(uTime)
       /\ uTime' # uTime => /\ uTime' > uTime
                            /\ regVars' = regVars]_vars

\* one insertion before the first frame, then a frame, then two insertions
\* that carry the frame's time
StampIsFrameTimeWitness ==
    /\ variant = "elaborated"
    /\ K = 3
    /\ uTime = 2
    /\ SlotRecord(1) = [pos |-> log[1].pos, time |-> 0]
    /\ SlotRecord(2) = [pos |-> log[2].pos, time |-> Fround(uTime)]
    /\ SlotRecord(3) = [pos |-> log[3].pos, time |-> Fround(uTime)]
    /\ uClickPos[4] = Sentinel

====
